---- MODULE Spec2Model ----
(***************************************************************************)
(* State-machine model of the project/task Telegram bot in src/main.py:    *)
(* the sqlite Database, the aiogram FSM sessions, the message and callback *)
(* handlers, the Qwen role recommender and the hourly TaskScheduler.       *)
(***************************************************************************)
EXTENDS Integers, Sequences, FiniteSets, TLC

(* ------------------------------ bounds -------------------------------- *)
\* largest row id per table (an INTEGER PRIMARY KEY insert takes max(id)+1)
MaxProjects == 2
MaxMemberships == 3
MaxTasks == 2

\* telegram ids of the chat users
TelegramIds == {1, 2, 3}
\* Telegram full_name of each chat user (callback.from_user.full_name)
FullName(t) == CASE t = 1 -> "Ann" [] t = 2 -> "Bob" [] OTHER -> "Cid"
\* names a caller may pass to add_user
NameInputs == {"Ann", "Bob"}
\* role names that occur in role lists and recommender answers
RoleNames == {"Dev", "QA"}
\* 8-character join codes random.choices can produce (two of them)
Codes == {"AAAAAAA1", "AAAAAAA2"}
\* project names typed by users
ProjectNames == {"Alpha"}
\* task descriptions typed by users
Descriptions == {"Fix crash"}

VARIABLES
    projects,       \* table projects: rows [id, name, code, manager_id]
    users,          \* table users (Memberships): [id, telegram_id, name, role, project_id, is_active]
    project_roles,  \* table project_roles: [project_id, role_name]
    tasks,          \* table tasks: [id, project_id, description, deadline, assigned_to, status]
    fsm,            \* MemoryStorage: telegram id -> [state, data]
    clock,          \* datetime.now(), in half seconds
    sent,           \* bot.send_message notifications of the last step: [to, kind, task]
    ret             \* the last direct call of a Database method: [h, u, out, id, arg]

vars == <<projects, users, project_roles, tasks, fsm, clock, sent, ret>>
db == <<projects, users, project_roles, tasks>>

(* ------------------------------ helpers ------------------------------- *)
Max(S) == CHOOSE x \in S : \A y \in S : y <= x
Min(S) == CHOOSE x \in S : \A y \in S : x <= y
Ids(rows) == {r.id : r \in rows}
\* sqlite rowid of an INTEGER PRIMARY KEY insert: one more than the largest
NextId(rows) == IF rows = {} THEN 1 ELSE Max(Ids(rows)) + 1
\* cursor.fetchone() of an unordered SELECT: the row of lowest rowid
FirstRow(rows) == CHOOSE r \in rows : \A q \in rows : r.id <= q.id

(* ------------------------------ Database ------------------------------ *)
\* SELECT * FROM users WHERE telegram_id = ?
UserRows(us, t) == {x \in us : x.telegram_id = t}
\* get_user(...) is not None
HasUser(us, t) == UserRows(us, t) # {}
get_user(us, t) == FirstRow(UserRows(us, t))

ProjectById(ps, pid) == {p \in ps : p.id = pid}
get_project_by_id(ps, pid) == FirstRow(ProjectById(ps, pid))
ProjectByCode(ps, code) == {p \in ps : p.code = code}
get_project(ps, code) == FirstRow(ProjectByCode(ps, code))

get_project_users(us, pid) == {x \in us : x.project_id = pid}
get_project_roles(prs, pid) == {r.role_name : r \in {q \in prs : q.project_id = pid}}
\* SELECT DISTINCT p.* FROM projects p JOIN users u ... WHERE u.telegram_id = ?
get_user_projects(ps, us, t) ==
    {p \in ps : \E x \in us : x.telegram_id = t /\ x.project_id = p.id}
ActiveRows(us, t) == {x \in us : x.telegram_id = t /\ x.is_active = 1}
get_tasks_by_user(ts, uid) == {k \in ts : k.assigned_to = uid /\ k.status # "completed"}

\* add_project: the UNIQUE code constraint makes the INSERT raise
AddProjectRaises(ps, code) == ProjectByCode(ps, code) # {}
add_project(ps, name, code, manager) ==
    ps \cup {[id |-> NextId(ps), name |-> name, code |-> code, manager_id |-> manager]}

\* add_project_role: duplicates are ignored (IntegrityError swallowed)
add_project_role(prs, pid, role) ==
    prs \cup {[project_id |-> pid, role_name |-> role]}

\* add_user: the rows of this (telegram_id, project_id) pair
ExistingUser(us, t, pid) == {x \in us : x.telegram_id = t /\ x.project_id = pid}
\* add_user without the lookup of the existing pair: always inserts
add_user_always_inserts(us, t, name, pid, role) ==
    [users |-> us \cup {[id |-> NextId(us), telegram_id |-> t, name |-> name,
                         role |-> role, project_id |-> pid, is_active |-> 0]},
     id |-> NextId(us)]

\* add_user: returns [users, id]
add_user(us, t, name, pid, role) ==
    IF ExistingUser(us, t, pid) # {}
    THEN [users |-> us, id |-> FirstRow(ExistingUser(us, t, pid)).id]
    ELSE [users |-> us \cup {[id |-> NextId(us), telegram_id |-> t, name |-> name,
                              role |-> role, project_id |-> pid, is_active |-> 0]},
          id |-> NextId(us)]

add_task(ts, pid, description, deadline, assignee) ==
    ts \cup {[id |-> NextId(ts), project_id |-> pid, description |-> description,
              deadline |-> deadline, assigned_to |-> assignee, status |-> "pending"]}

\* update_task_status that sets a completed task back to pending
update_task_status_toggle(ts, tid, status) ==
    {IF k.id = tid
     THEN [k EXCEPT !.status = IF k.status = status THEN "pending" ELSE status]
     ELSE k : k \in ts}

update_task_status(ts, tid, status) ==
    {IF k.id = tid THEN [k EXCEPT !.status = status] ELSE k : k \in ts}

\* switch_user_project without the first UPDATE (is_active = 0)
switch_user_project_no_clear(ps, us, t, pid) ==
    IF ProjectById(ps, pid) = {}
    THEN [users |-> us, ok |-> FALSE]
    ELSE [users |-> {IF x.telegram_id = t /\ x.project_id = pid
                     THEN [x EXCEPT !.is_active = 1] ELSE x : x \in us},
          ok |-> TRUE]

\* switch_user_project whose second UPDATE flips the flag of the row
switch_user_project_toggle(ps, us, t, pid) ==
    IF ProjectById(ps, pid) = {}
    THEN [users |-> us, ok |-> FALSE]
    ELSE [users |-> {IF x.telegram_id = t
                     THEN [x EXCEPT !.is_active =
                              IF x.project_id = pid THEN 1 - x.is_active ELSE 0]
                     ELSE x : x \in us},
          ok |-> TRUE]

\* switch_user_project: returns [users, ok]
switch_user_project(ps, us, t, pid) ==
    IF ProjectById(ps, pid) = {}
    THEN [users |-> us, ok |-> FALSE]
    ELSE [users |-> {IF x.telegram_id = t
                     THEN [x EXCEPT !.is_active = IF x.project_id = pid THEN 1 ELSE 0]
                     ELSE x : x \in us},
          ok |-> TRUE]

\* delete_project: the four DELETEs
\* delete_project without its first DELETE
delete_project_tasks_kept(ts, pid) == ts
delete_project_tasks(ts, pid) == {k \in ts : k.project_id # pid}
delete_project_roles(prs, pid) == {r \in prs : r.project_id # pid}
delete_project_users(us, pid) == {x \in us : x.project_id # pid}
delete_project_projects(ps, pid) == {p \in ps : p.id # pid}

(* ------------------------------ initial state ------------------------- *)
NoData == [k \in {} |-> 0]
Idle == [state |-> "none", data |-> NoData]

Init ==
    /\ projects = {}
    /\ users = {}
    /\ project_roles = {}
    /\ tasks = {}
    /\ fsm = [t \in TelegramIds |-> Idle]
    /\ clock = 0
    /\ sent = {}
    /\ ret = [h |-> "init", u |-> 0, out |-> "ok", id |-> 0, arg |-> <<>>]

(* ---------------- the Database called directly (SpecStore) ------------ *)
\* project ids a caller may name (a project exists or not as the run goes)
PidInputs == 1 .. MaxProjects

StoreAddProject(name, code, manager) ==
    /\ IF AddProjectRaises(projects, code)
       THEN /\ ret' = [h |-> "add_project", u |-> manager, out |-> "raised", id |-> 0,
                        arg |-> <<>>]
            /\ UNCHANGED projects
       ELSE /\ projects' = add_project(projects, name, code, manager)
            /\ ret' = [h |-> "add_project", u |-> manager, out |-> "ok",
                        id |-> NextId(projects), arg |-> <<>>]
    /\ UNCHANGED <<users, project_roles, tasks, fsm, clock, sent>>

StoreAddUser(t, name, pid, role) ==
    /\ users' = add_user(users, t, name, pid, role).users
    /\ ret' = [h |-> "add_user", u |-> t, out |-> "ok",
                id |-> add_user(users, t, name, pid, role).id, arg |-> <<name, pid, role>>]
    /\ UNCHANGED <<projects, project_roles, tasks, fsm, clock, sent>>

StoreSwitchUserProject(t, pid) ==
    /\ users' = switch_user_project(projects, users, t, pid).users
    /\ ret' = [h |-> "switch_user_project", u |-> t,
                out |-> IF switch_user_project(projects, users, t, pid).ok
                        THEN "True" ELSE "False",
                id |-> pid, arg |-> <<>>]
    /\ UNCHANGED <<projects, project_roles, tasks, fsm, clock, sent>>

StoreDeleteProject(pid) ==
    /\ tasks' = delete_project_tasks(tasks, pid)
    /\ project_roles' = delete_project_roles(project_roles, pid)
    /\ users' = delete_project_users(users, pid)
    /\ projects' = delete_project_projects(projects, pid)
    /\ ret' = [h |-> "delete_project", u |-> 0, out |-> "True", id |-> pid, arg |-> <<>>]
    /\ UNCHANGED <<fsm, clock, sent>>

\* the bounds on the row ids, put on the state a step leads to
ProjectsFit == \A p \in projects' : p.id <= MaxProjects
UsersFit == \A x \in users' : x.id <= MaxMemberships
TasksFit == \A k \in tasks' : k.id <= MaxTasks

\* the telegram users that call the Database in SpecStore, and the one of them
\* who creates the projects
StoreUsers == {1, 2}
StoreManagers == {1}

\* a first join passes the Telegram full name and the role "Dev"; a repeated
\* call for the same pair passes any name and role
NextStore ==
    \/ \E n \in ProjectNames, c \in Codes, m \in StoreManagers :
          StoreAddProject(n, c, m) /\ ProjectsFit
    \/ \E t \in StoreUsers, p \in PidInputs, n \in NameInputs, r \in RoleNames :
          /\ ExistingUser(users, t, p) = {} => (n = FullName(t) /\ r = "Dev")
          /\ StoreAddUser(t, n, p, r)
          /\ UsersFit
    \/ \E t \in StoreUsers, p \in PidInputs : StoreSwitchUserProject(t, p)
    \/ \E p \in PidInputs : StoreDeleteProject(p)

SpecStore == Init /\ [][NextStore]_vars

(* ------------------------------ sessions ------------------------------ *)
RegName == "RegistrationStates:waiting_for_name"
RegCode == "RegistrationStates:waiting_for_project_code"
RegRole == "RegistrationStates:waiting_for_role"
PCName == "ProjectCreationStates:waiting_for_name"
PCRoles == "ProjectCreationStates:waiting_for_roles"
TCDescription == "TaskCreationStates:waiting_for_description"
TCDeadline == "TaskCreationStates:waiting_for_deadline"
TCAssignee == "TaskCreationStates:waiting_for_assignee"
PMNewCode == "ProjectManagementStates:waiting_for_new_project_code"
PMConfirm == "ProjectManagementStates:confirm_project_deletion"

\* current_state.startswith("RegistrationStates:") / ("ProjectCreationStates:")
InRegistration(st) == st \in {RegName, RegCode, RegRole}
InProjectCreation(st) == st \in {PCName, PCRoles}

\* state.update_data(k=v)
update_data(d, k, v) == [x \in DOMAIN d \cup {k} |-> IF x = k THEN v ELSE d[x]]
\* state.set_state(st): the data stay
set_state(f, t, st) == [f EXCEPT ![t].state = st]
\* state.clear() on a storage with one key for all users
clear_everyone(f, t) == [u \in DOMAIN f |-> Idle]
\* state.clear()
clear(f, t) == [f EXCEPT ![t] = Idle]

\* what a chat step leaves alone besides the tables and sessions it names
Quiet == sent' = {} /\ UNCHANGED <<clock, ret>>

\* UserCheckMiddleware / CallbackMiddleware: the event reaches its handler
\* (for a message other than "/start")
MiddlewarePasses(t) ==
    \/ HasUser(users, t)
    \/ InRegistration(fsm[t].state)
    \/ InProjectCreation(fsm[t].state)

\* the callback data (up to its variable suffix) some handler of the router
\* has a filter for
RegisteredCallbacks ==
    {"task_details", "create_new_project", "set_role", "create_task", "assign_task",
     "show_tasks", "complete_task", "project_report", "get_project_code",
     "back_to_main", "role", "switch_project", "select_project", "join_project",
     "join_role", "delete_project", "view_participants", "bot_feedback"}
\* the buttons of get_task_inline_keyboard, sent with every task to its assignee
TaskKeyboard == {"complete_task", "task_details", "leave_feedback"}
\* what a pressed button is answered with: dp.callback_query.middleware wraps
\* the handler whose filter matched, so without such a handler nothing runs
CallbackMiddleware_reply(t, data) ==
    IF data \notin RegisteredCallbacks THEN "unhandled"
    ELSE IF MiddlewarePasses(t) THEN "handler"
    ELSE "register_first"

(* ------------------------------ texts --------------------------------- *)
\* role lists typed at project creation, already cut at the commas
RoleListTexts == {<<"Dev">>, <<"Dev", " QA">>}
\* str.strip() of one segment
strip(seg) == CASE seg = " QA" -> "QA" [] seg = " Dev" -> "Dev" [] OTHER -> seg
\* [role.strip() for role in message.text.split(',')]
ParseRoles(text) == {strip(text[i]) : i \in DOMAIN text}
\* texts typed where a project code is expected
CodeTexts == Codes \cup {"nocode"}
\* the fixed list of process_role
valid_roles == {"Programmist", "Dizayner", "Analitik"}
\* texts typed at the registration role step
RoleTexts == {"Programmist", "Dev"}

(* ------------------------------ handlers ------------------------------- *)
\* A handler that raises leaves what it wrote before the raise; these are
\* the places where a handler subscripts None.
\* user[4] of the middleware's row, then project[3] of its project
NoUserProject(t) ==
    ~HasUser(users, t) \/ ProjectById(projects, get_user(users, t).project_id) = {}

\* cmd_start: "/start" passes the middleware whatever the user is; a
\* registered user gets the menu (or the handler raises) and keeps the state
cmd_start(t) ==
    /\ fsm' = IF HasUser(users, t) THEN fsm ELSE set_state(fsm, t, RegName)
    /\ UNCHANGED db
    /\ Quiet

\* handle_home_button: the session it leaves to the sender
handle_home_button_session(t) ==
    IF HasUser(users, t) THEN fsm[t] ELSE set_state(fsm, t, RegName)[t]

\* handle_home_button: the text "На главную"
handle_home_button(t) ==
    /\ MiddlewarePasses(t)
    /\ fsm' = [fsm EXCEPT ![t] = handle_home_button_session(t)]
    /\ UNCHANGED db
    /\ Quiet

process_name(t, text) ==
    /\ fsm[t].state = RegName
    /\ fsm' = [fsm EXCEPT ![t] = [state |-> RegCode,
                                  data |-> update_data(fsm[t].data, "name", text)]]
    /\ UNCHANGED db
    /\ Quiet

\* cmd_create_project: the message "/create" (not at the name step, whose
\* handler is registered first) or the callback "create_new_project"
cmd_create_project(t, isCallback) ==
    /\ MiddlewarePasses(t)
    /\ isCallback \/ fsm[t].state # RegName
    /\ fsm' = set_state(fsm, t, PCName)
    /\ UNCHANGED db
    /\ Quiet

\* process_project_name: code is what generate_project_code() returned
process_project_name(t, text, code) ==
    /\ fsm[t].state = PCName
    /\ fsm' = [fsm EXCEPT ![t] =
                  [state |-> PCRoles,
                   data |-> update_data(update_data(fsm[t].data, "project_name", text),
                                        "project_code", code)]]
    /\ UNCHANGED db
    /\ Quiet

\* the loop of process_project_roles left after its first add_project_role
AddRoles_first_only(prs, pid, roles) ==
    prs \cup {[project_id |-> pid, role_name |-> CHOOSE r \in roles : TRUE]}

\* the rows process_project_roles inserts into project_roles
AddRoles(prs, pid, roles) == prs \cup {[project_id |-> pid, role_name |-> r] : r \in roles}

\* process_project_roles: how it ends for the project data of the session
process_project_roles_reply(t) ==
    IF AddProjectRaises(projects, fsm[t].data["project_code"]) THEN "raised" ELSE "created"

process_project_roles(t, text) ==
    /\ fsm[t].state = PCRoles
    /\ LET data == fsm[t].data
           pid == NextId(projects)
       IN IF AddProjectRaises(projects, data["project_code"])
          THEN \* sqlite3.IntegrityError leaves the handler
               UNCHANGED <<projects, users, project_roles, fsm>>
          ELSE /\ projects' = add_project(projects, data["project_name"],
                                          data["project_code"], t)
               /\ project_roles' = AddRoles(project_roles, pid, ParseRoles(text))
               /\ users' = add_user(users, t, FullName(t), pid, "Manager").users
               /\ fsm' = clear(fsm, t)
    /\ UNCHANGED tasks
    /\ Quiet

\* process_project_code that already inserts the users row, without a role
process_project_code_registers(t, text) ==
    /\ fsm[t].state = RegCode
    /\ IF \/ ProjectByCode(projects, text) = {}
          \/ get_project_roles(project_roles, get_project(projects, text).id) = {}
       THEN UNCHANGED <<users, fsm>>
       ELSE /\ users' = add_user(users, t, FullName(t), get_project(projects, text).id, "").users
            /\ fsm' = [fsm EXCEPT ![t] =
                          [state |-> RegRole,
                           data |-> update_data(fsm[t].data, "project_id",
                                                get_project(projects, text).id)]]
    /\ UNCHANGED <<projects, project_roles, tasks>>
    /\ Quiet

process_project_code(t, text) ==
    /\ fsm[t].state = RegCode
    /\ IF \/ ProjectByCode(projects, text) = {}
          \/ get_project_roles(project_roles, get_project(projects, text).id) = {}
       THEN \* "project not found" / "no roles defined": the step stays
            UNCHANGED fsm
       ELSE fsm' = [fsm EXCEPT ![t] =
                       [state |-> RegRole,
                        data |-> update_data(fsm[t].data, "project_id",
                                             get_project(projects, text).id)]]
    /\ UNCHANGED db
    /\ Quiet

\* process_role_selection: the callback "set_role_<role>"
process_role_selection(t, role) ==
    /\ MiddlewarePasses(t)
    /\ IF HasUser(users, t) \/ "project_id" \notin DOMAIN fsm[t].data
       THEN \* "already registered", or KeyError: user_data["project_id"]
            UNCHANGED <<users, fsm>>
       ELSE /\ users' = add_user(users, t, FullName(t), fsm[t].data["project_id"], role).users
            /\ fsm' = clear(fsm, t)
    /\ UNCHANGED <<projects, project_roles, tasks>>
    /\ Quiet

\* process_role: a role typed as text at the registration role step
process_role(t, text) ==
    /\ fsm[t].state = RegRole
    /\ IF text \notin valid_roles
       THEN UNCHANGED <<users, fsm>>
       ELSE /\ users' = add_user(users, t, fsm[t].data["name"],
                                 fsm[t].data["project_id"], text).users
            /\ fsm' = clear(fsm, t)
    /\ UNCHANGED <<projects, project_roles, tasks>>
    /\ Quiet

(* ------------------------------ time ----------------------------------- *)
\* A datetime is a number of seconds since 2030-01-01 00:00:00; its text
\* '2030-01-DD HH:MM:SS' (strftime, and sqlite3's adapter for a datetime
\* without microseconds) is the tuple <<DD, HH, MM, SS>>.
SecondsPerHour == 3600
SecondsPerDay == 24 * SecondsPerHour
strftime(secs) ==
    <<1 + secs \div SecondsPerDay, (secs % SecondsPerDay) \div SecondsPerHour,
      (secs % SecondsPerHour) \div 60, secs % 60>>
\* datetime.strptime(deadline, '%Y-%m-%d %H:%M:%S')
strptime(text) ==
    (text[1] - 1) * SecondsPerDay + text[2] * SecondsPerHour + text[3] * 60 + text[4]
\* comparison of two such texts as sqlite compares TEXT: field by field
TextLess(a, b) ==
    \E i \in 1..4 : a[i] < b[i] /\ \A j \in 1..(i - 1) : a[j] = b[j]
TextLeq(a, b) == a = b \/ TextLess(a, b)

\* A deadline message 'DD.01.2030 HH:MM' is the tuple <<DD, HH, MM>>;
\* strptime(message.text, '%d.%m.%Y %H:%M') raises ValueError on anything else
DeadlineParses(text) ==
    /\ Len(text) = 3
    /\ text[1] \in 1..31 /\ text[2] \in 0..23 /\ text[3] \in 0..59
ParseDeadline(text) ==
    (text[1] - 1) * SecondsPerDay + text[2] * SecondsPerHour + text[3] * 60

(* ------------------------------ recommender ---------------------------- *)
\* what the Qwen client gives: a role text, or "fail" for any exception
\* raised inside the try block of get_best_assignee
RecommenderAnswers == RoleNames \cup {"Manager", "fail"}

\* get_best_assignee with the second SELECT only: the role is not looked at
get_best_assignee_any_member(us, pid, answer) ==
    IF answer = "fail" THEN {0}
    ELSE LET anyone == {x \in us : x.project_id = pid}
         IN IF anyone # {} THEN Ids(anyone) ELSE {0}

\* get_best_assignee whose except branch falls through to the second SELECT
get_best_assignee_fallback_on_failure(us, pid, answer) ==
    LET holders == {x \in us : x.project_id = pid /\ x.role = answer}
        anyone == {x \in us : x.project_id = pid}
    IN IF answer # "fail" /\ holders # {} THEN Ids(holders)
       ELSE IF anyone # {} THEN Ids(anyone)
       ELSE {0}

\* get_best_assignee without the second SELECT: None when nobody holds the role
get_best_assignee_no_fallback(us, pid, answer) ==
    IF answer = "fail" THEN {0}
    ELSE LET holders == {x \in us : x.project_id = pid /\ x.role = answer}
         IN IF holders # {} THEN Ids(holders) ELSE {0}

\* get_best_assignee: the ids it can return (ORDER BY RANDOM() LIMIT 1), 0 for None
get_best_assignee(us, pid, answer) ==
    IF answer = "fail" THEN {0}
    ELSE LET holders == {x \in us : x.project_id = pid /\ x.role = answer}
             anyone == {x \in us : x.project_id = pid}
         IN IF holders # {} THEN Ids(holders)
            ELSE IF anyone # {} THEN Ids(anyone)
            ELSE {0}

(* ------------------------------ task handlers -------------------------- *)
\* cb_create_task without the test of project[3]
cb_create_task_no_owner_check(t) ==
    /\ MiddlewarePasses(t)
    /\ fsm' = IF NoUserProject(t) THEN fsm ELSE set_state(fsm, t, TCDescription)
    /\ UNCHANGED db
    /\ Quiet

\* cb_create_task: user is the row the middleware fetched with get_user
cb_create_task(t) ==
    /\ MiddlewarePasses(t)
    /\ fsm' = IF \/ NoUserProject(t)
                 \/ get_project_by_id(projects, get_user(users, t).project_id).manager_id # t
              THEN \* TypeError, or "only the manager can create tasks"
                   fsm
              ELSE set_state(fsm, t, TCDescription)
    /\ UNCHANGED db
    /\ Quiet

process_task_description(t, text) ==
    /\ MiddlewarePasses(t)
    /\ fsm[t].state = TCDescription
    /\ fsm' = [fsm EXCEPT ![t] = [state |-> TCDeadline,
                                  data |-> update_data(fsm[t].data, "description", text)]]
    /\ UNCHANGED db
    /\ Quiet

\* process_task_deadline: answer is the recommender's result, best the id
\* get_best_assignee drew
process_task_deadline(t, text, answer, best) ==
    /\ MiddlewarePasses(t)
    /\ fsm[t].state = TCDeadline
    /\ IF ~DeadlineParses(text)
       THEN /\ best = 0
            /\ sent' = {}
            /\ UNCHANGED <<tasks, fsm>>
       ELSE LET project_id == get_user(users, t).project_id
            IN /\ best \in get_best_assignee(users, project_id, answer)
               /\ IF best # 0
                  THEN /\ tasks' = add_task(tasks, project_id, fsm[t].data["description"],
                                            strftime(ParseDeadline(text)), best)
                       /\ sent' = {[to |-> FirstRow({x \in users : x.id = best}).telegram_id,
                                    kind |-> "assigned", task |-> NextId(tasks)]}
                       /\ fsm' = clear(fsm, t)
                  ELSE \* the members of the project are listed as buttons
                       /\ fsm' = set_state(fsm, t, TCAssignee)
                       /\ sent' = {}
                       /\ UNCHANGED tasks
    /\ UNCHANGED <<projects, users, project_roles, clock, ret>>

\* process_task_deadline: what it answers
process_task_deadline_reply(t, text, best) ==
    IF ~DeadlineParses(text) THEN "bad_format"
    ELSE IF best # 0 THEN "auto_assigned"
    ELSE "choose_manually"

\* the "assign_task_<id>" buttons of the manual choice
ManualChoice(t) == Ids(get_project_users(users, get_user(users, t).project_id))

\* cb_assign_task: the callback "assign_task_<id>"
cb_assign_task(t, assignee_id) ==
    /\ MiddlewarePasses(t)
    /\ LET data == fsm[t].data
       IN IF "description" \notin DOMAIN data \/ "deadline" \notin DOMAIN data
          THEN \* KeyError: task_data["description"] or task_data["deadline"]
               UNCHANGED <<tasks, fsm>>
          ELSE /\ tasks' = add_task(tasks,
                                    IF "project_id" \in DOMAIN data THEN data["project_id"] ELSE 0,
                                    data["description"], data["deadline"], assignee_id)
               /\ fsm' = IF \E x \in users : x.id = assignee_id
                         THEN clear(fsm, t)
                         ELSE \* TypeError: assignee[2] of None, after the insert
                              fsm
    /\ UNCHANGED <<projects, users, project_roles>>
    /\ Quiet

\* process_task_assignee: a message at the assignee step, text is the name
\* before " ("
process_task_assignee(t, text) ==
    /\ MiddlewarePasses(t)
    /\ fsm[t].state = TCAssignee
    /\ LET data == fsm[t].data
           project_id == get_user(users, t).project_id
           named == {x \in get_project_users(users, project_id) : x.name = text}
       IN IF named = {} \/ "deadline" \notin DOMAIN data
          THEN \* StopIteration of next(...), or KeyError: task_data["deadline"]
               UNCHANGED <<tasks, fsm>>
          ELSE /\ tasks' = add_task(tasks, project_id, data["description"],
                                    data["deadline"], FirstRow(named).id)
               /\ fsm' = clear(fsm, t)
    /\ UNCHANGED <<projects, users, project_roles>>
    /\ Quiet

\* complete_task: the callback "complete_task_<id>"; the update is committed
\* before anything in the try block can raise
complete_task(t, task_id) ==
    /\ MiddlewarePasses(t)
    /\ tasks' = update_task_status(tasks, task_id, "completed")
    /\ UNCHANGED <<projects, users, project_roles, fsm>>
    /\ Quiet

(* ------------------------------ project handlers ----------------------- *)
\* cb_select_project: the callback "select_project_<id>"; project[3] of
\* None raises after switch_user_project returned False
cb_select_project(t, project_id) ==
    /\ MiddlewarePasses(t)
    /\ users' = switch_user_project(projects, users, t, project_id).users
    /\ UNCHANGED <<projects, project_roles, tasks, fsm>>
    /\ Quiet

cb_join_project(t) ==
    /\ MiddlewarePasses(t)
    /\ fsm' = set_state(fsm, t, PMNewCode)
    /\ UNCHANGED db
    /\ Quiet

\* process_new_project_code: what it answers
process_new_project_code_reply(t, text) ==
    IF ProjectByCode(projects, text) = {} THEN "not_found"
    ELSE IF get_project(projects, text) \in get_user_projects(projects, users, t)
    THEN "already_member"
    ELSE IF get_project_roles(project_roles, get_project(projects, text).id) = {}
    THEN "no_roles"
    ELSE "choose_role"

\* process_new_project_code that clears the session after "not found" too
process_new_project_code_clears_unknown(t, text) ==
    /\ MiddlewarePasses(t)
    /\ fsm[t].state = PMNewCode
    /\ fsm' = IF process_new_project_code_reply(t, text) # "choose_role"
              THEN clear(fsm, t) ELSE fsm
    /\ UNCHANGED db
    /\ Quiet

\* process_new_project_code: the role buttons "join_role_<id>_<role>" are
\* shown and the step stays, or the session is cleared
process_new_project_code(t, text) ==
    /\ MiddlewarePasses(t)
    /\ fsm[t].state = PMNewCode
    /\ fsm' = IF process_new_project_code_reply(t, text) \in {"already_member", "no_roles"}
              THEN clear(fsm, t) ELSE fsm
    /\ UNCHANGED db
    /\ Quiet

\* process_join_role: what it answers; TypeError (project[3] of None) is
\* caught by its except
process_join_role_reply(t, project_id, role) ==
    IF ProjectById(projects, project_id) = {} THEN "error" ELSE "joined"

\* process_join_role: the callback "join_role_<project id>_<role>"
process_join_role(t, project_id, role) ==
    /\ MiddlewarePasses(t)
    /\ users' = switch_user_project(projects,
                    add_user(users, t, FullName(t), project_id, role).users,
                    t, project_id).users
    /\ fsm' = clear(fsm, t)
    /\ UNCHANGED <<projects, project_roles, tasks>>
    /\ Quiet

\* cb_delete_project without the owner test
cb_delete_project_no_owner_check(t) ==
    /\ MiddlewarePasses(t)
    /\ fsm' = IF NoUserProject(t) THEN fsm ELSE set_state(fsm, t, PMConfirm)
    /\ UNCHANGED db
    /\ Quiet

cb_delete_project(t) ==
    /\ MiddlewarePasses(t)
    /\ fsm' = IF \/ NoUserProject(t)
                 \/ get_project_by_id(projects, get_user(users, t).project_id).manager_id # t
              THEN \* TypeError, or "only the owner can delete the project"
                   fsm
              ELSE set_state(fsm, t, PMConfirm)
    /\ UNCHANGED db
    /\ Quiet

\* confirm_project_deletion whose mismatch branch does not return
confirm_project_deletion_no_return(t, text) ==
    /\ MiddlewarePasses(t)
    /\ fsm[t].state = PMConfirm
    /\ IF ProjectById(projects, get_user(users, t).project_id) = {}
       THEN UNCHANGED <<projects, users, project_roles, tasks, fsm>>
       ELSE LET project == get_project_by_id(projects, get_user(users, t).project_id)
            IN /\ tasks' = delete_project_tasks(tasks, project.id)
               /\ project_roles' = delete_project_roles(project_roles, project.id)
               /\ users' = delete_project_users(users, project.id)
               /\ projects' = delete_project_projects(projects, project.id)
               /\ fsm' = clear(fsm, t)
    /\ Quiet

\* texts typed at the deletion confirmation step
ConfirmTexts == ProjectNames \cup {"alpha"}

confirm_project_deletion(t, text) ==
    /\ MiddlewarePasses(t)
    /\ fsm[t].state = PMConfirm
    /\ IF ProjectById(projects, get_user(users, t).project_id) = {}
       THEN \* TypeError: project[1] of None
            UNCHANGED <<projects, users, project_roles, tasks, fsm>>
       ELSE LET project == get_project_by_id(projects, get_user(users, t).project_id)
            IN IF text # project.name
               THEN /\ fsm' = clear(fsm, t)
                    /\ UNCHANGED db
               ELSE /\ tasks' = delete_project_tasks(tasks, project.id)
                    /\ project_roles' = delete_project_roles(project_roles, project.id)
                    /\ users' = delete_project_users(users, project.id)
                    /\ projects' = delete_project_projects(projects, project.id)
                    /\ fsm' = clear(fsm, t)
    /\ Quiet

(* ------------------------------ callback tokens ------------------------ *)
\* the last segment of callback.data ("select_project_<segment>"), as text
TokenSegments == {"1", "2", "x"}
\* int(segment) returns / raises ValueError
IsInt(seg) == seg \in {"1", "2"}
int(seg) == IF seg = "1" THEN 1 ELSE 2

\* cb_task_details: the callback "task_details_<id>" only reads and answers
cb_task_details(t, task_id) ==
    /\ MiddlewarePasses(t)
    /\ UNCHANGED <<db, fsm>>
    /\ Quiet

\* how the handling of a token whose segment is not a number ends: ret notes
\* the handler and "ValueError" when the exception leaves the handler,
\* "error_answer" when the handler catches it and answers the user
Malformed(t, h, out, seg) ==
    /\ MiddlewarePasses(t)
    /\ ret' = [h |-> h, u |-> t, out |-> out, id |-> 0, arg |-> <<seg>>]
    /\ sent' = {}
    /\ UNCHANGED <<db, fsm, clock>>

\* task_id = int(callback.data.split("_")[-1]), outside any try
on_task_details(t, seg) ==
    IF IsInt(seg) THEN cb_task_details(t, int(seg))
    ELSE Malformed(t, "cb_task_details", "ValueError", seg)
\* the same inside the try block, whose except answers an alert
on_complete_task(t, seg) ==
    IF IsInt(seg) THEN complete_task(t, int(seg))
    ELSE Malformed(t, "complete_task", "error_answer", seg)
\* project_id = int(...), outside any try
on_select_project(t, seg) ==
    IF IsInt(seg) THEN cb_select_project(t, int(seg))
    ELSE Malformed(t, "cb_select_project", "ValueError", seg)
\* assignee_id = int(...), outside any try
on_assign_task(t, seg) ==
    IF IsInt(seg) THEN cb_assign_task(t, int(seg))
    ELSE Malformed(t, "cb_assign_task", "ValueError", seg)
\* project_id = int(project_id), before the try block
on_join_role(t, seg, role) ==
    IF IsInt(seg) THEN process_join_role(t, int(seg), role)
    ELSE Malformed(t, "process_join_role", "ValueError", seg)

(* ------------------------------ menu handlers -------------------------- *)
\* get_active_project / get_user_active_project: the projects joined to the
\* active rows of the user (fetchone() gives None when there is none)
ActiveProjects(t) ==
    {p \in projects : \E x \in ActiveRows(users, t) : x.project_id = p.id}

\* cb_show_tasks: db.get_active_user(user[1])[0] subscripts the fetched row
cb_show_tasks_reply(t) ==
    IF ActiveRows(users, t) = {} THEN "TypeError"
    ELSE IF \E x \in ActiveRows(users, t) : get_tasks_by_user(tasks, x.id) # {}
         THEN "tasks"
         ELSE "no_tasks"
\* cb_project_report: "if not project" inside the try block
cb_project_report_reply(t) ==
    IF ActiveProjects(t) = {} THEN "not_found"
    ELSE IF \E p \in ActiveProjects(t) : p.manager_id = t THEN "report"
         ELSE "only_manager"
\* cb_get_project_code: "if not active_project"
cb_get_project_code_reply(t) ==
    IF ActiveProjects(t) = {} THEN "not_found"
    ELSE IF \E p \in ActiveProjects(t) : p.manager_id = t THEN "code"
         ELSE "only_manager"
\* cb_view_participants: "if not active_project"
cb_view_participants_reply(t) ==
    IF ActiveProjects(t) = {} THEN "not_found"
    ELSE IF \E p \in ActiveProjects(t) : p.manager_id = t THEN "participants"
         ELSE "only_manager"

\* a menu callback: it reads the tables and answers; ret notes the answer
MenuCallback(t, h, out) ==
    /\ HasUser(users, t)
    /\ ret' = [h |-> h, u |-> t, out |-> out, id |-> 0, arg |-> <<>>]
    /\ sent' = {}
    /\ UNCHANGED <<db, fsm, clock>>

cb_show_tasks(t) == MenuCallback(t, "cb_show_tasks", cb_show_tasks_reply(t))
cb_project_report(t) == MenuCallback(t, "cb_project_report", cb_project_report_reply(t))
cb_get_project_code(t) == MenuCallback(t, "cb_get_project_code", cb_get_project_code_reply(t))
cb_view_participants(t) ==
    MenuCallback(t, "cb_view_participants", cb_view_participants_reply(t))

(* ------------------------------ scheduler ------------------------------ *)
\* int((deadline_dt - now).total_seconds() / 3600), the clock in half seconds
hours_left(deadline, now) == (2 * strptime(deadline) - now) \div (2 * SecondsPerHour)

\* upcoming_tasks with "t.deadline < ?" for the end of the day
upcoming_tasks_exclusive(now) ==
    {<<k, x, p>> \in tasks \X users \X projects :
        /\ k.assigned_to = x.id
        /\ k.project_id = p.id
        /\ k.status # "completed"
        /\ TextLess(k.deadline, strftime((now + 2 * 24 * SecondsPerHour) \div 2))
        /\ TextLess(strftime(now \div 2), k.deadline)}

\* upcoming_tasks of a scheduler that skips the tasks the run before reminded of
upcoming_tasks_once(now) ==
    {<<k, x, p>> \in tasks \X users \X projects :
        /\ k.assigned_to = x.id
        /\ k.project_id = p.id
        /\ k.status # "completed"
        /\ TextLeq(k.deadline, strftime((now + 2 * 24 * SecondsPerHour) \div 2))
        /\ TextLess(strftime(now \div 2), k.deadline)
        /\ ~(ret.h = "reminded" /\ ret.arg[k.id])}

\* upcoming_tasks with a threshold of half an hour instead of 24 hours
upcoming_tasks_within_half_hour(now) ==
    {<<k, x, p>> \in tasks \X users \X projects :
        /\ k.assigned_to = x.id
        /\ k.project_id = p.id
        /\ k.status # "completed"
        /\ TextLeq(k.deadline, strftime((now + SecondsPerHour) \div 2))
        /\ TextLess(strftime(now \div 2), k.deadline)}

\* the rows of the SELECT in check_deadlines: (task, assignee row, project row)
upcoming_tasks(now) ==
    {<<k, x, p>> \in tasks \X users \X projects :
        /\ k.assigned_to = x.id
        /\ k.project_id = p.id
        /\ k.status # "completed"
        /\ TextLeq(k.deadline, strftime((now + 2 * 24 * SecondsPerHour) \div 2))
        /\ TextLess(strftime(now \div 2), k.deadline)}

\* the hours below which the manager is told too
EscalationHours == 2

\* a run that also closes the tasks it reminds of
check_deadlines_closes_tasks ==
    /\ sent' = {[to |-> r[2].telegram_id, kind |-> "reminder", task |-> r[1].id] :
                   r \in upcoming_tasks(clock)}
    /\ tasks' = {IF \E r \in upcoming_tasks(clock) : r[1].id = k.id
                 THEN [k EXCEPT !.status = "completed"] ELSE k : k \in tasks}
    /\ UNCHANGED <<projects, users, project_roles, fsm, clock, ret>>

\* the messages of the loop over upcoming_tasks in a run at now
notifications(now) ==
    {[to |-> r[2].telegram_id, kind |-> "reminder", task |-> r[1].id] :
        r \in upcoming_tasks(now)}
    \cup
    {[to |-> r[3].manager_id, kind |-> "escalation", task |-> r[1].id] :
        r \in {q \in upcoming_tasks(now) :
                 hours_left(q[1].deadline, now) <= EscalationHours}}

\* check_deadlines: one run, every bot.send_message delivered
check_deadlines ==
    /\ sent' = notifications(clock)
    /\ UNCHANGED <<projects, users, project_roles, tasks, fsm, clock, ret>>

(* ------------------------------ the bot --------------------------------- *)
\* Spec: the bot from its first start. User 1 creates the projects and deletes
\* them, user 2 registers by code, joins and switches; both may press any
\* menu button.
Creators == {1}
Members == {2}
Chatters == Creators \cup Members

Next ==
    \/ \E t \in Chatters : cmd_start(t)
    \/ \E t \in Chatters : handle_home_button(t)
    \/ \E t \in Chatters : process_name(t, FullName(t))
    \/ \E t \in Creators, cb \in BOOLEAN : cmd_create_project(t, cb)
    \/ \E t \in Creators, text \in ProjectNames, code \in Codes :
          process_project_name(t, text, code)
    \/ \E t \in Creators, text \in RoleListTexts :
          process_project_roles(t, text) /\ ProjectsFit /\ UsersFit
    \/ \E t \in Members, text \in CodeTexts : process_project_code(t, text)
    \/ \E t \in Members, role \in RoleNames : process_role_selection(t, role) /\ UsersFit
    \/ \E t \in Members, text \in RoleTexts : process_role(t, text) /\ UsersFit
    \/ \E t \in Chatters, p \in PidInputs : cb_select_project(t, p)
    \/ \E t \in Members : cb_join_project(t)
    \/ \E t \in Members, text \in CodeTexts : process_new_project_code(t, text)
    \/ \E t \in Members, p \in PidInputs, role \in RoleNames :
          process_join_role(t, p, role) /\ UsersFit
    \/ \E t \in Chatters : cb_delete_project(t)
    \/ \E t \in Chatters, text \in ConfirmTexts : confirm_project_deletion(t, text)

Spec == Init /\ [][Next]_vars

(* ------------------------------ joining --------------------------------- *)
\* a users row / a projects row
Row(id, t, role, pid) ==
    [id |-> id, telegram_id |-> t, name |-> FullName(t), role |-> role,
     project_id |-> pid, is_active |-> 0]
Project(id, code, manager) ==
    [id |-> id, name |-> "Alpha", code |-> code, manager_id |-> manager]

\* SpecJoin: user 1 has created two projects with the roles "Dev, QA", then
\* users 2 and 3 have registered with the code of the first (add_user leaves
\* is_active at 0 and nothing of that has called switch_user_project). Both
\* now run the join flow for the second project.
InitJoin ==
    /\ projects = {Project(1, "AAAAAAA1", 1), Project(2, "AAAAAAA2", 1)}
    /\ project_roles = {[project_id |-> p, role_name |-> r] : p \in {1, 2}, r \in RoleNames}
    /\ users = {Row(1, 1, "Manager", 1), Row(2, 1, "Manager", 2),
                Row(3, 2, "Dev", 1), Row(4, 3, "Dev", 1)}
    /\ tasks = {}
    /\ fsm = [t \in TelegramIds |-> Idle]
    /\ clock = 0
    /\ sent = {}
    /\ ret = [h |-> "init", u |-> 0, out |-> "ok", id |-> 0, arg |-> <<>>]

Joiners == {2, 3}
\* the project whose role buttons process_new_project_code shows to them
JoinedProject == FirstRow({p \in projects : p.code = "AAAAAAA2"}).id

NextJoin ==
    \/ \E t \in Joiners : cb_join_project(t)
    \/ \E t \in Joiners, text \in CodeTexts : process_new_project_code(t, text)
    \/ \E t \in Joiners, role \in RoleNames : process_join_role(t, JoinedProject, role)
    \/ \E t \in Joiners, p \in PidInputs : cb_select_project(t, p)
    \/ \E t \in Joiners : handle_home_button(t)

SpecJoin == InitJoin /\ [][NextJoin]_vars

(* ------------------------------ tasks ----------------------------------- *)
\* SpecTasks: user 1 has created a project with the roles "Dev, QA"; users
\* 2 and 3 have registered in it as "Dev"; nobody holds "QA". The manager
\* creates tasks, the assignees complete them, time passes and the
\* scheduler runs.
InitTasks ==
    /\ projects = {Project(1, "AAAAAAA1", 1)}
    /\ project_roles = {[project_id |-> 1, role_name |-> r] : r \in RoleNames}
    /\ users = {Row(1, 1, "Manager", 1), Row(2, 2, "Dev", 1), Row(3, 3, "Dev", 1)}
    /\ tasks = {}
    /\ fsm = [t \in TelegramIds |-> Idle]
    /\ clock = 0
    /\ sent = {}
    /\ ret = [h |-> "init", u |-> 0, out |-> "ok", id |-> 0, arg |-> <<>>]

\* deadline messages: 02.01.2030 00:00, 02.01.2030 00:01, and one that does
\* not parse
DeadlineTexts == {<<2, 0, 0>>, <<2, 0, 1>>, <<>>}

\* the instants (in half seconds) at which something happens: with d the
\* deadline 02.01.2030 00:00, these are d - 24h, d - 24h + 59s, + 59.5s,
\* + 60s, d - 3h, d - 2h01m, d - 2h - 0.5s, d - 2h, d - 0.5s, d, d + 0.5s
\* and d + 60s
Instants ==
    {0, 118, 119, 120, 151200, 158280, 158399, 158400, 172799, 172800, 172801, 172920}

\* time passes
Tick(now) ==
    /\ now > clock
    /\ clock' = now
    /\ sent' = {}
    /\ UNCHANGED <<projects, users, project_roles, tasks, fsm, ret>>

Managers == {1}
Assignees == {2, 3}

NextTasks ==
    \/ \E t \in Managers : cb_create_task(t)
    \/ \E t \in Managers, text \in Descriptions : process_task_description(t, text)
    \/ \E t \in Managers, text \in DeadlineTexts, answer \in RecommenderAnswers,
          best \in 0 .. MaxMemberships :
          process_task_deadline(t, text, answer, best) /\ TasksFit
    \/ \E t \in Managers, a \in 1 .. MaxMemberships : cb_assign_task(t, a) /\ TasksFit
    \/ \E t \in Managers, text \in NameInputs : process_task_assignee(t, text) /\ TasksFit
    \/ \E t \in Assignees, k \in 1 .. MaxTasks : complete_task(t, k)
    \/ \E now \in Instants : Tick(now)
    \/ check_deadlines

SpecTasks == InitTasks /\ [][NextTasks]_vars

(* ------------------------------ deleting -------------------------------- *)
\* SpecDelete: user 1 has created project 1 ("Alpha") and user 2 project 2
\* ("Beta"), both with the roles "Dev, QA"; user 2 has joined project 1 as
\* "Dev" (which made that row the active one) and user 3 has registered in it
\* as "QA"; each manager has created one task, assigned by the recommender
\* to the "Dev" of project 1 and to the manager of project 2. The users now
\* press "delete project", type confirmations, switch projects and complete
\* tasks.
InitDelete ==
    /\ projects = {Project(1, "AAAAAAA1", 1),
                   [Project(2, "AAAAAAA2", 2) EXCEPT !.name = "Beta"]}
    /\ project_roles = {[project_id |-> p, role_name |-> r] : p \in {1, 2}, r \in RoleNames}
    /\ users = {Row(1, 1, "Manager", 1), Row(2, 2, "Manager", 2),
                [Row(3, 2, "Dev", 1) EXCEPT !.is_active = 1], Row(4, 3, "QA", 1)}
    /\ tasks = {[id |-> 1, project_id |-> 1, description |-> "Fix crash",
                 deadline |-> <<2, 0, 0, 0>>, assigned_to |-> 3, status |-> "pending"],
                [id |-> 2, project_id |-> 2, description |-> "Fix crash",
                 deadline |-> <<2, 0, 0, 0>>, assigned_to |-> 2, status |-> "pending"]}
    /\ fsm = [t \in TelegramIds |-> Idle]
    /\ clock = 0
    /\ sent = {}
    /\ ret = [h |-> "init", u |-> 0, out |-> "ok", id |-> 0, arg |-> <<>>]

\* texts typed at the confirmation step: the two project names and a
\* lower-case spelling
DeleteTexts == ConfirmTexts \cup {"Beta"}

NextDelete ==
    \/ \E t \in TelegramIds : cb_delete_project(t)
    \/ \E t \in TelegramIds, text \in DeleteTexts : confirm_project_deletion(t, text)
    \/ \E t \in TelegramIds, p \in PidInputs : cb_select_project(t, p)
    \/ \E t \in TelegramIds : handle_home_button(t)
    \/ \E t \in TelegramIds : cmd_start(t)
    \/ \E t \in TelegramIds, k \in 1 .. MaxTasks : complete_task(t, k)

SpecDelete == InitDelete /\ [][NextDelete]_vars

(* ------------------------------ registering ----------------------------- *)
\* SpecRegister: user 1 has created one project with the single role "Dev";
\* users 2 and 3, who have no row, register with its code. The only role
\* buttons they are shown are those of that project's roles.
InitRegister ==
    /\ projects = {Project(1, "AAAAAAA1", 1)}
    /\ project_roles = {[project_id |-> 1, role_name |-> "Dev"]}
    /\ users = {Row(1, 1, "Manager", 1)}
    /\ tasks = {}
    /\ fsm = [t \in TelegramIds |-> Idle]
    /\ clock = 0
    /\ sent = {}
    /\ ret = [h |-> "init", u |-> 0, out |-> "ok", id |-> 0, arg |-> <<>>]

Newcomers == {2, 3}

NextRegister ==
    \/ \E t \in Newcomers : cmd_start(t)
    \/ \E t \in Newcomers : handle_home_button(t)
    \/ \E t \in Newcomers, text \in NameInputs : process_name(t, text)
    \/ \E t \in Newcomers, text \in CodeTexts : process_project_code(t, text)
    \/ \E t \in Newcomers, role \in get_project_roles(project_roles, 1) :
          process_role_selection(t, role) /\ UsersFit
    \/ \E t \in Newcomers, text \in RoleTexts : process_role(t, text) /\ UsersFit

SpecRegister == InitRegister /\ [][NextRegister]_vars

(* ------------------------------ the five workflows ---------------------- *)
\* SpecSteps: user 1 has created project 1 with the roles "Dev, QA" and user
\* 2 has registered in it as "Dev"; user 3 has no row. User 3 registers,
\* user 1 creates a project, creates tasks and deletes a project, user 2
\* joins a project; each of them may send "На главную" at any step.
InitSteps ==
    /\ projects = {Project(1, "AAAAAAA1", 1)}
    /\ project_roles = {[project_id |-> 1, role_name |-> r] : r \in RoleNames}
    /\ users = {Row(1, 1, "Manager", 1), Row(2, 2, "Dev", 1)}
    /\ tasks = {}
    /\ fsm = [t \in TelegramIds |-> Idle]
    /\ clock = 0
    /\ sent = {}
    /\ ret = [h |-> "init", u |-> 0, out |-> "ok", id |-> 0, arg |-> <<>>]

Registrants == {3}
\* deadline messages (02.01.2030 00:00 and one that does not parse) and
\* recommender results (a role somebody holds, or a failure) of this run
StepDeadlines == {<<2, 0, 0>>, <<>>}
StepAnswers == {"Dev", "fail"}

NextSteps ==
    \/ \E t \in TelegramIds : handle_home_button(t)
    \/ \E t \in Registrants : cmd_start(t)
    \/ \E t \in Registrants : process_name(t, FullName(t))
    \/ \E t \in Registrants, text \in CodeTexts : process_project_code(t, text)
    \/ \E t \in Registrants, role \in RoleNames : process_role_selection(t, role) /\ UsersFit
    \/ \E t \in Registrants, text \in RoleTexts : process_role(t, text) /\ UsersFit
    \/ \E t \in Managers : cmd_create_project(t, TRUE)
    \/ \E t \in Managers, text \in ProjectNames, code \in Codes :
          process_project_name(t, text, code)
    \/ \E t \in Managers, text \in RoleListTexts :
          process_project_roles(t, text) /\ ProjectsFit /\ UsersFit
    \/ \E t \in TelegramIds : cb_create_task(t)
    \/ \E t \in Managers, text \in Descriptions : process_task_description(t, text)
    \/ \E t \in Managers, text \in StepDeadlines, answer \in StepAnswers,
          best \in 0 .. MaxMemberships :
          process_task_deadline(t, text, answer, best) /\ TasksFit
    \/ \E t \in Managers : cb_delete_project(t)
    \/ \E t \in Managers, text \in ConfirmTexts : confirm_project_deletion(t, text)
    \/ \E t \in Members : cb_join_project(t)
    \/ \E t \in Members, text \in CodeTexts : process_new_project_code(t, text)
    \/ \E t \in Members, p \in {q.id : q \in projects}, role \in RoleNames :
          process_join_role(t, p, role) /\ UsersFit

SpecSteps == InitSteps /\ [][NextSteps]_vars

(* ------------------------------ successive scheduler runs --------------- *)
\* SpecScheduler: the project of SpecTasks with a task of each member, due
\* 02.01.2030 00:00 and 00:01. The scheduler runs, time passes between the
\* runs, and the members complete their tasks.
InitScheduler ==
    /\ projects = {Project(1, "AAAAAAA1", 1)}
    /\ project_roles = {[project_id |-> 1, role_name |-> r] : r \in RoleNames}
    /\ users = {Row(1, 1, "Manager", 1), Row(2, 2, "Dev", 1), Row(3, 3, "Dev", 1)}
    /\ tasks = add_task(add_task({}, 1, "Fix crash", <<2, 0, 0, 0>>, 2),
                        1, "Fix crash", <<2, 0, 1, 0>>, 3)
    /\ fsm = [t \in TelegramIds |-> Idle]
    /\ clock = 0
    /\ sent = {}
    /\ ret = [h |-> "init", u |-> 0, out |-> "ok", id |-> 0, arg |-> <<>>]

\* time passes until the next run of the interval job; ret notes which
\* tasks the messages sent since the clock last moved reminded of
Elapse(now) ==
    /\ now > clock
    /\ clock' = now
    /\ sent' = {}
    /\ ret' = [h |-> "reminded", u |-> 0, out |-> "ok", id |-> 0,
               arg |-> [i \in 1 .. MaxTasks |->
                           \E m \in sent : m.kind = "reminder" /\ m.task = i]]
    /\ UNCHANGED <<projects, users, project_roles, tasks, fsm>>

NextScheduler ==
    \/ \E now \in Instants : Elapse(now)
    \/ check_deadlines
    \/ \E t \in Assignees, k \in 1 .. MaxTasks : complete_task(t, k)

SpecScheduler == InitScheduler /\ [][NextScheduler]_vars

(* ------------------------------ pressing buttons ------------------------ *)
\* SpecCallbacks: the project of SpecTasks with one task of user 2; the
\* three users send callbacks whose last segment is a number or is not, and
\* press the buttons of the main menu. No row is active, as registration
\* and project creation leave it; cb_select_project activates one.
InitCallbacks ==
    /\ projects = {Project(1, "AAAAAAA1", 1)}
    /\ project_roles = {[project_id |-> 1, role_name |-> r] : r \in RoleNames}
    /\ users = {Row(1, 1, "Manager", 1), Row(2, 2, "Dev", 1), Row(3, 3, "Dev", 1)}
    /\ tasks = add_task({}, 1, "Fix crash", <<2, 0, 0, 0>>, 2)
    /\ fsm = [t \in TelegramIds |-> Idle]
    /\ clock = 0
    /\ sent = {}
    /\ ret = [h |-> "init", u |-> 0, out |-> "ok", id |-> 0, arg |-> <<>>]

NextCallbacks ==
    \/ \E t \in TelegramIds, seg \in TokenSegments : on_task_details(t, seg)
    \/ \E t \in TelegramIds, seg \in TokenSegments : on_complete_task(t, seg)
    \/ \E t \in TelegramIds, seg \in TokenSegments : on_select_project(t, seg)
    \/ \E t \in TelegramIds, seg \in TokenSegments : on_assign_task(t, seg) /\ TasksFit
    \/ \E t \in TelegramIds, seg \in TokenSegments, role \in RoleNames :
          on_join_role(t, seg, role) /\ UsersFit
    \/ \E t \in TelegramIds : cb_show_tasks(t)
    \/ \E t \in TelegramIds : cb_project_report(t)
    \/ \E t \in TelegramIds : cb_get_project_code(t)
    \/ \E t \in TelegramIds : cb_view_participants(t)

SpecCallbacks == InitCallbacks /\ [][NextCallbacks]_vars

(* ------------------------------ the active project --------------------- *)
\* SpecActive: user 1 has created two projects, users 2 and 3 have
\* registered in the first, and user 1 has selected the first project. User
\* 1 switches between the projects and creates tasks.
InitActive ==
    /\ projects = {Project(1, "AAAAAAA1", 1), Project(2, "AAAAAAA2", 1)}
    /\ project_roles = {[project_id |-> p, role_name |-> r] : p \in {1, 2}, r \in RoleNames}
    /\ users = {[Row(1, 1, "Manager", 1) EXCEPT !.is_active = 1], Row(2, 1, "Manager", 2),
                Row(3, 2, "Dev", 1), Row(4, 3, "Dev", 1)}
    /\ tasks = {}
    /\ fsm = [t \in TelegramIds |-> Idle]
    /\ clock = 0
    /\ sent = {}
    /\ ret = [h |-> "init", u |-> 0, out |-> "ok", id |-> 0, arg |-> <<>>]

NextActive ==
    \/ \E t \in Managers :
          \E p \in {q.id : q \in get_user_projects(projects, users, t)} :
             cb_select_project(t, p)
    \/ \E t \in Managers : cb_create_task(t)
    \/ \E t \in Managers, text \in Descriptions : process_task_description(t, text)
    \/ \E t \in Managers, text \in StepDeadlines, answer \in StepAnswers,
          best \in 0 .. MaxMemberships + 1 :
          process_task_deadline(t, text, answer, best) /\ TasksFit
    \/ \E t \in Assignees, k \in 1 .. MaxTasks : complete_task(t, k)

SpecActive == InitActive /\ [][NextActive]_vars

(* ------------------------------ the hourly job -------------------------- *)
\* SpecHourly: project 1 with its manager and one "Dev", from the start of
\* the bot at 01.01.2030 00:00. add_job(check_deadlines, 'interval', hours=1)
\* runs check_deadlines at every full hour after the start; between two runs
\* the manager creates tasks, the member completes them, the manager deletes
\* the project. The clock counts half seconds.
Period == 2 * SecondsPerHour
Horizon == 5 * Period
NextRun(now) == (now \div Period + 1) * Period
\* instants between the runs at which somebody writes to the bot
HourlyInstants == {1, 7199, 7201, 7319, 7320, 14399, 21601}
\* deadline messages 01.01.2030 02:00, 02:01 and 05:00
HourlyDeadlines == {<<1, 2, 0>>, <<1, 2, 1>>, <<1, 5, 0>>}

InitHourly ==
    /\ projects = {Project(1, "AAAAAAA1", 1)}
    /\ project_roles = {[project_id |-> 1, role_name |-> r] : r \in RoleNames}
    /\ users = {Row(1, 1, "Manager", 1), Row(2, 2, "Dev", 1)}
    /\ tasks = {}
    /\ fsm = [t \in TelegramIds |-> Idle]
    /\ clock = 0
    /\ sent = {}
    /\ ret = [h |-> "init", u |-> 0, out |-> "ok", id |-> 0, arg |-> <<>>]

\* time passes, but not beyond the next run of the job
Pass(now) == now < NextRun(clock) /\ Tick(now)

\* the interval trigger fires: check_deadlines runs at the next full hour
interval_job ==
    /\ NextRun(clock) <= Horizon
    /\ clock' = NextRun(clock)
    /\ sent' = notifications(clock')
    /\ UNCHANGED <<projects, users, project_roles, tasks, fsm, ret>>

NextHourly ==
    \/ \E now \in HourlyInstants : Pass(now)
    \/ interval_job
    \/ \E t \in Managers : cb_create_task(t)
    \/ \E t \in Managers, text \in Descriptions : process_task_description(t, text)
    \/ \E t \in Managers, text \in HourlyDeadlines, best \in 1 .. MaxMemberships :
          process_task_deadline(t, text, "Dev", best) /\ TasksFit
    \/ \E t \in {2}, k \in 1 .. MaxTasks : complete_task(t, k)
    \/ \E t \in Managers : cb_delete_project(t)
    \/ \E t \in Managers, text \in ProjectNames : confirm_project_deletion(t, text)

\* the job is not skipped: APScheduler fires it every hour
SpecHourly == InitHourly /\ [][NextHourly]_vars /\ WF_vars(interval_job)

(* ------------------------------ properties ---------------------------- *)
\* some row kept by the step has its is_active flag changed
FlagWritten == \E x \in users, y \in users' : x.id = y.id /\ x.is_active # y.is_active
AtMostOneActive == \A t \in TelegramIds : Cardinality(ActiveRows(users, t)) <= 1

\* C1: under any interleaving of add_user, switch_user_project, add_project and
\* delete_project calls every telegram user has at most one row with
\* is_active = 1, and only switch_user_project changes an is_active flag (its
\* two UPDATEs are one step).
C1_AtMostOneActive ==
    /\ []AtMostOneActive
    /\ [][FlagWritten => ret'.h = "switch_user_project"]_vars
\* a switch that cleared one of the user's two rows and set the other
C1_Witness ==
    /\ ret.h = "switch_user_project" /\ ret.out = "True"
    /\ Cardinality(UserRows(users, ret.u)) = 2
    /\ \E x \in UserRows(users, ret.u) : x.is_active = 1 /\ x.project_id = ret.id

\* C3: add_user for a (telegram_id, project_id) pair that has a row returns
\* that row's id and leaves the users table as it was (no row added; name,
\* role and is_active of the row unchanged), whatever name and role are passed;
\* a pair never has two rows.
C3_AddUserIdempotent ==
    [][(ret'.h = "add_user" /\ ExistingUser(users, ret'.u, ret'.arg[2]) # {}) =>
          /\ users' = users
          /\ Cardinality(ExistingUser(users', ret'.u, ret'.arg[2])) = 1
          /\ \E x \in ExistingUser(users, ret'.u, ret'.arg[2]) : ret'.id = x.id]_vars
\* a repeated add_user that passed another name and role than the row holds
C3_Witness ==
    /\ ret.h = "add_user"
    /\ \E x \in users : /\ x.id = ret.id
                        /\ x.telegram_id = ret.u /\ x.project_id = ret.arg[2]
                        /\ x.name # ret.arg[1] /\ x.role # ret.arg[3]
                        /\ x.is_active = 1

\* C2: every telegram user without a users row has no active row, and every
\* telegram user with at least one row has exactly one row with is_active = 1
\* (after registration, after project creation, after a project deletion).
C2_ExactlyOneActive ==
    \A t \in TelegramIds :
        IF UserRows(users, t) = {}
        THEN ActiveRows(users, t) = {}
        ELSE Cardinality(ActiveRows(users, t)) = 1

\* a (telegram user, project) pair has at most one users row
MembershipUnique ==
    \A x \in users, y \in users :
        (x.telegram_id = y.telegram_id /\ x.project_id = y.project_id) => x.id = y.id

\* C4: a (telegram user, project) pair never has two rows; a user's join of
\* the project gives that user a row in it, leaves the rows of the other
\* users and the project_roles table as they were, and for a user who has a
\* row in the project it adds no row, raises nothing and answers "already a
\* member", as does the project code step of the join flow.
C4_JoinFlow ==
    /\ []MembershipUnique
    /\ [][\A t \in Joiners, role \in RoleNames :
            process_join_role(t, JoinedProject, role) =>
               /\ ExistingUser(users', t, JoinedProject) # {}
               /\ \A x \in users : x.telegram_id # t => x \in users'
               /\ project_roles' = project_roles
               /\ ExistingUser(users, t, JoinedProject) # {} =>
                     /\ Cardinality(users') = Cardinality(users)
                     /\ process_join_role_reply(t, JoinedProject, role) = "already_member"]_vars
    /\ [][\A t \in Joiners, text \in Codes :
            (/\ process_new_project_code(t, text)
             /\ ProjectByCode(projects, text) # {}
             /\ ExistingUser(users, t, get_project(projects, text).id) # {}) =>
               /\ users' = users
               /\ process_new_project_code_reply(t, text) = "already_member"]_vars

\* the time left to the deadline of task k, in half seconds
Left(k) == 2 * strptime(k.deadline) - clock
\* the notifications of one kind about task k among msgs
About(msgs, kind, k) == {m \in msgs : m.kind = kind /\ m.task = k.id}
\* the telegram id of the assignee of task k
AssigneeOf(k) == FirstRow({x \in users : x.id = k.assigned_to}).telegram_id

\* C5: a run of check_deadlines at time now sends the assignee of a task a
\* reminder if and only if the task is not completed and
\* now < deadline <= now + 24h.
C5_ReminderWindow ==
    /\ [](\A k \in tasks :
            (\E r \in upcoming_tasks(clock) : r[1] = k) <=>
               (/\ k.status # "completed"
                /\ 0 < Left(k)
                /\ Left(k) <= 2 * SecondsPerDay))
    /\ [][check_deadlines =>
         \A k \in tasks :
            (About(sent', "reminder", k) = {[to |-> AssigneeOf(k), kind |-> "reminder",
                                             task |-> k.id]}) <=>
               (/\ k.status # "completed"
                /\ 0 < Left(k)
                /\ Left(k) <= 2 * SecondsPerDay)]_vars
\* a run that reminded the assignee of a task due in exactly 24 hours, and of
\* no other, while a completed task was due within the day
C5_Witness ==
    \E k \in tasks, c \in tasks :
        /\ Left(k) = 2 * SecondsPerDay
        /\ sent = {[to |-> AssigneeOf(k), kind |-> "reminder", task |-> k.id]}
        /\ c.status = "completed" /\ 0 < Left(c) /\ Left(c) < Left(k)

\* C6: a run of check_deadlines tells the manager about a task in the
\* reminder window if and only if at most 2 hours are left to its deadline.
C6_EscalationThreshold ==
    [][check_deadlines =>
         \A k \in tasks :
            (k.status # "completed" /\ 0 < Left(k) /\ Left(k) <= 2 * SecondsPerDay) =>
               ((About(sent', "escalation", k) # {}) <=>
                   (Left(k) <= 2 * EscalationHours * SecondsPerHour))]_vars

\* the users rows of project pid that hold the role
Holders(pid, role) == {x \in users : x.project_id = pid /\ x.role = role}
\* the project the task creation of user t works in: user[4]
TaskProject(t) == get_user(users, t).project_id

\* C7: a deadline that parses, with a recommender answer that some member of
\* the project holds as role, creates exactly one task, assigned to a holder
\* of that role in the project, notifies that assignee and clears the
\* session without entering the assignee step.
C7_AutoAssign ==
    [][\A t \in Managers, text \in DeadlineTexts, answer \in RoleNames \cup {"Manager"},
          best \in 0 .. MaxMemberships :
            (/\ process_task_deadline(t, text, answer, best)
             /\ DeadlineParses(text)
             /\ Holders(TaskProject(t), answer) # {}) =>
               /\ tasks \subseteq tasks'
               /\ Cardinality(tasks' \ tasks) = 1
               /\ \A k \in tasks' \ tasks :
                     /\ k.assigned_to \in Ids(Holders(TaskProject(t), answer))
                     /\ k.project_id = TaskProject(t)
                     /\ k.description = fsm[t].data["description"]
                     /\ k.deadline = strftime(ParseDeadline(text))
                     /\ sent' = {[to |-> AssigneeOf(k), kind |-> "assigned", task |-> k.id]}
               /\ fsm'[t] = Idle]_vars
\* the second of the two holders of "Dev" was given a task and told so
C7_Witness ==
    \E k \in tasks, x \in Holders(1, "Dev") :
        /\ k.assigned_to = x.id
        /\ \E y \in Holders(1, "Dev") : y.id < x.id
        /\ sent = {[to |-> x.telegram_id, kind |-> "assigned", task |-> k.id]}
        /\ \A t \in Managers : fsm[t] = Idle

\* C8: a deadline that parses, with a failed recommender call, creates no
\* task and notifies nobody, answers with the manual choice among all rows
\* of the project whatever their role, and moves the session to the assignee
\* step with its data kept.
C8_ManualFallback ==
    [][\A t \in Managers, text \in DeadlineTexts, best \in 0 .. MaxMemberships :
            (process_task_deadline(t, text, "fail", best) /\ DeadlineParses(text)) =>
               /\ tasks' = tasks
               /\ sent' = {}
               /\ process_task_deadline_reply(t, text, best) = "choose_manually"
               /\ ManualChoice(t) = Ids({x \in users : x.project_id = TaskProject(t)})
               /\ fsm'[t] = [state |-> TCAssignee, data |-> fsm[t].data]]_vars
\* the manager is at the assignee step with no task created and the three
\* members, of two roles, to choose from
C8_Witness ==
    \E t \in Managers :
        /\ fsm[t].state = TCAssignee
        /\ tasks = {}
        /\ Cardinality(ManualChoice(t)) = 3
        /\ Cardinality({x.role : x \in get_project_users(users, TaskProject(t))}) = 2

\* C9 as stated: the deadline step moves to the assignee step only when the
\* project has no users row, and creates a task whenever it has one, also
\* when the recommender call failed.
C9_ManualOnlyWithoutMembers ==
    [][\A t \in Managers, text \in DeadlineTexts, answer \in RecommenderAnswers,
          best \in 0 .. MaxMemberships :
            (process_task_deadline(t, text, answer, best) /\ DeadlineParses(text)) =>
               /\ fsm'[t].state = TCAssignee =>
                     get_project_users(users, TaskProject(t)) = {}
               /\ get_project_users(users, TaskProject(t)) # {} =>
                     Cardinality(tasks' \ tasks) = 1]_vars

\* C9 amended: the deadline step moves to the assignee step only when the
\* recommender call failed or the project has no users row; whenever the
\* recommender answered and the project has a row, it creates a task.
C9_ManualOnlyOnFailure ==
    [][\A t \in Managers, text \in DeadlineTexts, answer \in RecommenderAnswers,
          best \in 0 .. MaxMemberships :
            (process_task_deadline(t, text, answer, best) /\ DeadlineParses(text)) =>
               /\ fsm'[t].state = TCAssignee =>
                     (answer = "fail" \/ get_project_users(users, TaskProject(t)) = {})
               /\ (answer # "fail" /\ get_project_users(users, TaskProject(t)) # {}) =>
                     Cardinality(tasks' \ tasks) = 1]_vars
\* both outcomes in one state: an earlier task went to the manager's row, the
\* only row left when nobody holds the answered role or the answer is
\* "Manager", and the manager is now at the assignee step
C9_Witness ==
    \E t \in Managers, k \in tasks :
        /\ fsm[t].state = TCAssignee
        /\ k.assigned_to \in Ids(Holders(TaskProject(t), "Manager"))

\* C10: at the assignee step, the manager's choice of a listed member (by
\* button or by name) creates a task with the description and a deadline
\* typed before, in the manager's project, assigned to the chosen row, and
\* clears the session.
C10_ManualAssign ==
    /\ [][\A t \in Managers, a \in 1 .. MaxMemberships :
            (fsm[t].state = TCAssignee /\ a \in ManualChoice(t) /\ cb_assign_task(t, a)) =>
               /\ \E k \in tasks' \ tasks :
                     /\ k.assigned_to = a
                     /\ k.project_id = TaskProject(t)
                     /\ k.description = fsm[t].data["description"]
                     /\ \E text \in DeadlineTexts :
                           DeadlineParses(text) /\ k.deadline = strftime(ParseDeadline(text))
               /\ fsm'[t] = Idle]_vars
    /\ [][\A t \in Managers, text \in NameInputs :
            (/\ process_task_assignee(t, text)
             /\ \E x \in get_project_users(users, TaskProject(t)) : x.name = text) =>
               /\ \E k \in tasks' \ tasks :
                     /\ k.project_id = TaskProject(t)
                     /\ k.description = fsm[t].data["description"]
                     /\ \E x \in get_project_users(users, TaskProject(t)) :
                           x.name = text /\ k.assigned_to = x.id
               /\ fsm'[t] = Idle]_vars

\* the project the deletion handlers of user t work on: the project of the
\* row get_user returns
DeletionProject(t) == get_project_by_id(projects, get_user(users, t).project_id)
\* no row of project pid is left in any table
ProjectGone(pid) ==
    /\ \A q \in projects' : q.id # pid
    /\ \A k \in tasks' : k.project_id # pid
    /\ \A r \in project_roles' : r.project_id # pid
    /\ \A x \in users' : x.project_id # pid
\* the rows of the other projects are as they were
OthersKept(pid) ==
    /\ projects' = {q \in projects : q.id # pid}
    /\ tasks' = {k \in tasks : k.project_id # pid}
    /\ project_roles' = {r \in project_roles : r.project_id # pid}
    /\ users' = {x \in users : x.project_id # pid}

\* C11: at the confirmation step the project is deleted if and only if the
\* typed text equals its name character for character; on any other text the
\* four tables are unchanged; in both cases the session is reset to none.
C11_ConfirmByExactName ==
    [][\A t \in TelegramIds, text \in DeleteTexts :
         confirm_project_deletion(t, text) =>
            /\ (DeletionProject(t) \notin projects') <=> (text = DeletionProject(t).name)
            /\ text # DeletionProject(t).name => UNCHANGED <<projects, users, project_roles, tasks>>
            /\ fsm'[t] = Idle]_vars
\* project 1 was deleted by its name while project 2, whose name was also
\* among the typed texts, is still there with its task
C11_Witness ==
    /\ \A q \in projects : q.id = 2
    /\ \E q \in projects : q.name = "Beta"
    /\ \E k \in tasks : k.project_id = 2
    /\ \A k \in tasks : k.project_id # 1
    /\ \A t \in TelegramIds : fsm[t] = Idle

\* C12: a step in which delete_project removes project p leaves no projects,
\* tasks, project_roles or users row of p and removes or changes no other
\* row; the four DELETEs are one step.
C12_CascadeAllOrNothing ==
    [][\A q \in projects : q \notin projects' => (ProjectGone(q.id) /\ OthersKept(q.id))]_vars
\* project 1 is gone with its task, its roles and its three users rows, and
\* the rows of project 2 are all there
C12_Witness ==
    /\ projects # {} /\ \A q \in projects : q.id = 2
    /\ tasks # {} /\ \A k \in tasks : k.project_id = 2
    /\ {r.role_name : r \in project_roles} = RoleNames
    /\ \A r \in project_roles : r.project_id = 2
    /\ users # {} /\ \A x \in users : x.project_id = 2
    /\ \E t \in TelegramIds : fsm[t].state = PMConfirm

\* C13: a project disappears only in a confirmation step of the user who is
\* its manager_id; "delete project" pressed by a user who is not the manager
\* of the project it works on changes no table and no session.
C13_OnlyManagerDeletes ==
    /\ [][\A q \in projects : q \notin projects' =>
             \E text \in DeleteTexts : confirm_project_deletion(q.manager_id, text)]_vars
    /\ [][\A t \in TelegramIds :
             (cb_delete_project(t) /\ HasUser(users, t) /\ DeletionProject(t).manager_id # t) =>
                UNCHANGED <<projects, users, project_roles, tasks, fsm>>]_vars
\* user 2 has deleted the project it managed and is left with its row in
\* project 1, which user 1 manages
C13_Witness ==
    /\ projects # {} /\ \A q \in projects : q.id = 1 /\ q.manager_id = 1
    /\ \E x \in users : x.telegram_id = 2 /\ x.project_id = 1
    /\ \A x \in users : x.telegram_id = 2 => x.role # "Manager"

\* C14: switch_user_project for a (telegram_id, project_id) pair without a
\* users row returns False and leaves the users table, so every is_active
\* flag of that user, as it was.
C14_SwitchNotAMember ==
    [][(ret'.h = "switch_user_project" /\ ExistingUser(users, ret'.u, ret'.id) = {}) =>
          (ret'.out = "False" /\ users' = users)]_vars

\* switching twice to the same project gives the users table of switching once
SwitchTwiceIsOnce ==
    \A t \in StoreUsers, p \in PidInputs :
        switch_user_project(projects,
                            switch_user_project(projects, users, t, p).users, t, p).users
           = switch_user_project(projects, users, t, p).users

\* C15: switch_user_project to the project whose row is already the user's
\* active one returns True and leaves the four tables as they were, and
\* switching twice in a row to a project gives the same tables as switching
\* once.
C15_SwitchIdempotent ==
    /\ []SwitchTwiceIsOnce
    /\ [][(/\ ret'.h = "switch_user_project"
           /\ \E x \in ExistingUser(users, ret'.u, ret'.id) : x.is_active = 1) =>
             (ret'.out = "True" /\ UNCHANGED <<projects, users, project_roles, tasks>>)]_vars
\* a switch has succeeded, its row is the active one, so that the same call
\* can be made again, and the other user has an active row to lose
C15_Witness ==
    /\ ret.h = "switch_user_project" /\ ret.out = "True"
    /\ \E x \in ExistingUser(users, ret.u, ret.id) : x.is_active = 1
    /\ \E y \in users : y.telegram_id # ret.u /\ y.is_active = 1

\* after the step user t has a row in project pid with the role, that row is
\* the only active one of t, and the session of t is reset
JoinedActive(t, pid, role) ==
    /\ \E x \in users' : /\ x.telegram_id = t /\ x.project_id = pid /\ x.role = role
                         /\ ActiveRows(users', t) = {x}
    /\ fsm'[t] = Idle

\* C16: the role step of registration (button or text) that completes gives
\* the user a row in the project found by the code, with the chosen role,
\* makes it the user's active row and resets the session.
C16_RegistrationCompletes ==
    [][\A t \in Members :
         /\ \A role \in RoleNames :
               (/\ process_role_selection(t, role)
                /\ ~HasUser(users, t)
                /\ "project_id" \in DOMAIN fsm[t].data) =>
                  JoinedActive(t, fsm[t].data["project_id"], role)
         /\ \A text \in RoleTexts :
               (process_role(t, text) /\ text \in valid_roles) =>
                  JoinedActive(t, fsm[t].data["project_id"], text)]_vars

\* C17: the roles step of project creation adds a project whose manager_id is
\* the sender and whose roles are the typed ones, gives the sender a row in
\* it with the role "Manager", makes that row the sender's only active one
\* and resets the session.
C17_CreationCompletes ==
    [][\A t \in Creators, text \in RoleListTexts :
         process_project_roles(t, text) =>
            \E q \in projects' \ projects :
               /\ q.manager_id = t
               /\ get_project_roles(project_roles', q.id) = ParseRoles(text)
               /\ JoinedActive(t, q.id, "Manager")]_vars

\* C18: the role step of the join flow for an existing project gives the user
\* a row in it with the chosen role, makes it the user's only active row,
\* keeps every row the user had (inactive if of another project) and resets
\* the session.
C18_JoinCompletes ==
    [][\A t \in Joiners, role \in RoleNames :
         process_join_role(t, JoinedProject, role) =>
            /\ JoinedActive(t, JoinedProject, role)
            /\ \A y \in UserRows(users, t) :
                  \E z \in users' : z = [y EXCEPT !.is_active = z.is_active]]_vars

\* no two projects share a code
UniqueCodes == \A q \in projects, r \in projects : q.code = r.code => q = r

\* C19: no two projects share a code, and a session at the roles step of
\* project creation always ends with a committed project, also when the
\* code generated at the name step is the code of a stored project.
C19_CreationNeverCollides ==
    /\ UniqueCodes
    /\ \A t \in Creators :
          fsm[t].state = PCRoles => process_project_roles_reply(t) = "created"

\* C20: right after the roles step has created a project, get_project_roles
\* of it is the set of the typed role names (stripped, duplicates collapsed),
\* and get_project_roles of a project does not change while the project
\* exists.
C20_RolesRoundTrip ==
    /\ [][\A t \in Creators, text \in RoleListTexts :
            process_project_roles(t, text) =>
               \A q \in projects' \ projects :
                  get_project_roles(project_roles', q.id) = ParseRoles(text)]_vars
    /\ [][\A q \in projects :
            q \in projects' =>
               get_project_roles(project_roles', q.id) = get_project_roles(project_roles, q.id)]_vars
\* two projects created from the lists "Dev" and "Dev, QA", each with its own
\* roles, after the creator's session was reset
C20_Witness ==
    /\ \E q \in projects, r \in projects :
          /\ get_project_roles(project_roles, q.id) = {"Dev"}
          /\ get_project_roles(project_roles, r.id) = {"Dev", "QA"}
    /\ \A t \in Creators : fsm[t] = Idle

\* C21: whatever the session of a user is, the message "На главную" leaves it
\* without accumulated data and at no step of the workflow that was pending:
\* at "none", or for a user without a row at the name step of registration,
\* the entry point the message is then processed as.
C21_HomeResets ==
    \A t \in Chatters :
       MiddlewarePasses(t) =>
          /\ handle_home_button_session(t).data = NoData
          /\ \/ handle_home_button_session(t).state = Idle.state
             \/ ~HasUser(users, t) /\ handle_home_button_session(t).state = RegName

\* C22: a message at the deadline step that does not parse, or that names a
\* moment not after the current time, creates no task and leaves the session
\* as it was; no task is added whose deadline is not after the time of the
\* step that adds it.
C22_DeadlineInFuture ==
    /\ [][\A t \in Managers, text \in DeadlineTexts :
            (/\ \E answer \in RecommenderAnswers, best \in 0 .. MaxMemberships :
                    process_task_deadline(t, text, answer, best)
             /\ ~(DeadlineParses(text) /\ clock < 2 * ParseDeadline(text))) =>
               UNCHANGED <<tasks, fsm>>]_vars
    /\ [][\A k \in tasks' \ tasks : clock < 2 * strptime(k.deadline)]_vars

\* C23: a step changes a task only from pending to completed, a completed
\* task stays as it is, and get_tasks_by_user of a row is the set of the
\* tasks assigned to it that are not completed, so it holds no completed task.
C23_StatusOnlyCompletes ==
    /\ [][\A k \in tasks :
            \/ k \in tasks'
            \/ /\ k.status = "pending"
               /\ [k EXCEPT !.status = "completed"] \in tasks'
               /\ \A q \in tasks' : q.id = k.id => q.status = "completed"]_vars
    /\ [](\A x \in users, k \in tasks :
            k \in get_tasks_by_user(tasks, x.id) <=>
               (k.assigned_to = x.id /\ k.status = "pending"))
\* an assignee with a completed task and a pending one, whose query gives
\* the pending one only
C23_Witness ==
    \E x \in users, k \in tasks, q \in tasks :
       /\ k.assigned_to = x.id /\ k.status = "completed"
       /\ q.assigned_to = x.id /\ q.status = "pending"
       /\ get_tasks_by_user(tasks, x.id) = {q}

\* C24: the role of every users row is a role of the catalog of the row's
\* project, or it is "Manager" and the row is the one of the project's
\* creator.
C24_RoleFromCatalog ==
    \A x \in users :
       \/ x.role \in get_project_roles(project_roles, x.project_id)
       \/ /\ x.role = "Manager"
          /\ \E p \in projects : p.id = x.project_id /\ p.manager_id = x.telegram_id

\* a step of a workflow before its last one, or the message "На главную"
NonFinalStep ==
    \/ \E t \in TelegramIds : handle_home_button(t)
    \/ \E t \in Registrants : cmd_start(t)
    \/ \E t \in Registrants : process_name(t, FullName(t))
    \/ \E t \in Registrants, text \in CodeTexts : process_project_code(t, text)
    \/ \E t \in Managers : cmd_create_project(t, TRUE)
    \/ \E t \in Managers, text \in ProjectNames, code \in Codes :
          process_project_name(t, text, code)
    \/ \E t \in Managers : cb_create_task(t)
    \/ \E t \in Managers, text \in Descriptions : process_task_description(t, text)
    \/ \E t \in Managers : cb_delete_project(t)
    \/ \E t \in Members : cb_join_project(t)
    \/ \E t \in Members, text \in CodeTexts : process_new_project_code(t, text)
\* a last step whose input fails validation
RejectedStep ==
    \/ \E t \in Registrants, text \in RoleTexts \ valid_roles : process_role(t, text)
    \/ \E t \in Managers, text \in {d \in StepDeadlines : ~DeadlineParses(d)},
          answer \in StepAnswers : process_task_deadline(t, text, answer, 0)
    \/ \E t \in Managers, text \in ConfirmTexts :
          /\ fsm[t].state = PMConfirm
          /\ text # get_project_by_id(projects, get_user(users, t).project_id).name
          /\ confirm_project_deletion(t, text)

\* C25: every step of registration, project creation, task creation, joining
\* and deletion before the last one, the message "На главную", and a last
\* step whose input is rejected, leave projects, project_roles, users and
\* tasks unchanged.
C25_WritesOnlyAtCommit ==
    [][(NonFinalStep \/ RejectedStep) => UNCHANGED db]_vars
\* the three users in the middle of task creation, joining and registration
\* with data accumulated, and the tables still as they were at the start
C25_Witness ==
    /\ fsm[1].state = TCDeadline /\ fsm[1].data # NoData
    /\ fsm[2].state = PMNewCode
    /\ fsm[3].state = RegRole /\ fsm[3].data # NoData
    /\ projects = {Project(1, "AAAAAAA1", 1)}
    /\ users = {Row(1, 1, "Manager", 1), Row(2, 2, "Dev", 1)}
    /\ tasks = {}

\* the states of the four StatesGroups, and "none"
SessionStates ==
    {Idle.state, RegName, RegCode, RegRole, PCName, PCRoles, TCDescription, TCDeadline,
     TCAssignee, PMNewCode, PMConfirm}
\* the handling of one event sent by user t
EventOf(t) ==
    \/ handle_home_button(t)
    \/ cmd_start(t)
    \/ process_name(t, FullName(t))
    \/ \E text \in CodeTexts : process_project_code(t, text)
    \/ \E role \in RoleNames : process_role_selection(t, role)
    \/ \E text \in RoleTexts : process_role(t, text)
    \/ cmd_create_project(t, TRUE)
    \/ \E text \in ProjectNames, code \in Codes : process_project_name(t, text, code)
    \/ \E text \in RoleListTexts : process_project_roles(t, text)
    \/ cb_create_task(t)
    \/ \E text \in Descriptions : process_task_description(t, text)
    \/ \E text \in StepDeadlines, answer \in StepAnswers, best \in 0 .. MaxMemberships :
          process_task_deadline(t, text, answer, best)
    \/ cb_delete_project(t)
    \/ \E text \in ConfirmTexts : confirm_project_deletion(t, text)
    \/ cb_join_project(t)
    \/ \E text \in CodeTexts : process_new_project_code(t, text)
    \/ \E p \in PidInputs, role \in RoleNames : process_join_role(t, p, role)

\* C26: the handling of an event of user t leaves the session (state and
\* data) of every other user as it was, and the session of a user is always
\* one state of one StatesGroup, or "none".
C26_SessionPrivate ==
    /\ [][\A t \in TelegramIds :
            EventOf(t) => \A u \in TelegramIds \ {t} : fsm'[u] = fsm[u]]_vars
    /\ [](\A t \in TelegramIds : fsm[t].state \in SessionStates)
\* user 1 at the roles step of project creation, user 2 at the code step of
\* joining and user 3 at the code step of registration, after user 1 has
\* completed a task creation that cleared the session of user 1
C26_Witness ==
    /\ fsm[1].state = PCRoles
    /\ fsm[2].state = PMNewCode
    /\ fsm[3].state = RegCode /\ fsm[3].data # NoData
    /\ tasks # {}

\* task k was among the reminders of the scheduler run before the clock moved
RemindedBefore(k) == ret.h = "reminded" /\ ret.arg[k.id]

\* C27: a task the run before reminded of, that is still not completed and
\* still has now < deadline <= now + 24h, is selected by the scheduler again,
\* and a run sends its assignee a reminder again.
C27_NoDeduplication ==
    /\ [](\A k \in tasks :
            (/\ RemindedBefore(k)
             /\ k.status # "completed"
             /\ 0 < Left(k)
             /\ Left(k) <= 2 * SecondsPerDay) =>
               \E r \in upcoming_tasks(clock) : r[1] = k)
    /\ [][check_deadlines =>
         \A k \in tasks :
            (/\ RemindedBefore(k)
             /\ k.status # "completed"
             /\ 0 < Left(k)
             /\ Left(k) <= 2 * SecondsPerDay) =>
               About(sent', "reminder", k) # {}]_vars
\* a run has reminded of a task of which the run before, at an earlier
\* time, had reminded too
C27_Witness ==
    \E k \in tasks :
       /\ RemindedBefore(k)
       /\ About(sent, "reminder", k) # {}
       /\ clock > 0

\* the handlers that read a number from the callback token
TokenHandlers ==
    {"cb_task_details", "complete_task", "cb_select_project", "cb_assign_task",
     "process_join_role"}

\* C28: a callback whose numeric segment is not a number ends with an
\* answer to the user and no exception leaving the handler, and it changes
\* neither the tables nor any session.
C28_MalformedTokenAnswered ==
    /\ [](ret.h \in TokenHandlers => ret.out = "error_answer")
    /\ [][\A t \in TelegramIds, seg \in TokenSegments, role \in RoleNames :
            (/\ ~IsInt(seg)
             /\ \/ on_task_details(t, seg)
                \/ on_complete_task(t, seg)
                \/ on_select_project(t, seg)
                \/ on_assign_task(t, seg)
                \/ on_join_role(t, seg, role)) =>
               UNCHANGED <<db, fsm>>]_vars

\* the menu handlers that look up the active row of the user
ActiveRowHandlers ==
    {"cb_show_tasks", "cb_project_report", "cb_get_project_code", "cb_view_participants"}

\* C29: show tasks, project report, project code and participants, called
\* by a user who has rows none of which is active, answer with a message:
\* no exception is raised, and tables and sessions stay as they are.
C29_NoActiveRowHandled ==
    /\ [](\A t \in TelegramIds :
            (/\ ret.h \in ActiveRowHandlers /\ ret.u = t
             /\ HasUser(users, t) /\ ActiveRows(users, t) = {}) =>
               ret.out # "TypeError")
    /\ [][\A t \in TelegramIds :
            (cb_show_tasks(t) \/ cb_project_report(t) \/ cb_get_project_code(t)
               \/ cb_view_participants(t)) => UNCHANGED <<db, fsm>>]_vars

\* C30: a deadline that parses, with a recommender answer that is a role no
\* row of the project holds, creates one task assigned to some row of the
\* project and clears the session when the project has a row, and otherwise
\* moves to the assignee step with an empty list of buttons; for a project
\* without rows get_best_assignee gives None, for one with rows and no
\* holder of the role it gives any of its rows.
C30_UnheldRoleFallsBack ==
    /\ [][\A t \in Managers, text \in DeadlineTexts, answer \in RoleNames \cup {"Manager"},
            best \in 0 .. MaxMemberships :
              (/\ fsm[t].state = TCDeadline
               /\ DeadlineParses(text)
               /\ Holders(TaskProject(t), answer) = {}
               /\ process_task_deadline(t, text, answer, best)) =>
                 IF get_project_users(users, TaskProject(t)) # {}
                 THEN /\ Cardinality(tasks' \ tasks) = 1
                      /\ \A k \in tasks' \ tasks :
                            /\ k.project_id = TaskProject(t)
                            /\ k.assigned_to \in Ids(get_project_users(users, TaskProject(t)))
                      /\ process_task_deadline_reply(t, text, best) = "auto_assigned"
                      /\ fsm'[t] = Idle
                 ELSE /\ tasks' = tasks
                      /\ fsm'[t].state = TCAssignee
                      /\ ManualChoice(t) = {}]_vars
    /\ [](\A pid \in PidInputs, answer \in RoleNames \cup {"Manager"} :
            Holders(pid, answer) = {} =>
               get_best_assignee(users, pid, answer) =
                  IF get_project_users(users, pid) = {} THEN {0}
                  ELSE Ids(get_project_users(users, pid)))
\* two tasks created while nobody held "QA": one went to a holder of "Dev",
\* the last one to the manager's own row, who was told so
C30_Witness ==
    /\ Holders(1, "QA") = {}
    /\ \E k \in tasks, q \in tasks :
          /\ k.assigned_to \in Ids(Holders(1, "Dev"))
          /\ q.assigned_to \in Ids(Holders(1, "Manager"))
          /\ sent = {[to |-> 1, kind |-> "assigned", task |-> q.id]}
    /\ \A t \in Managers : fsm[t] = Idle

\* user t is the manager of the project of the row get_user gives for t
ManagesOwnProject(t) ==
    /\ ~NoUserProject(t)
    /\ get_project_by_id(projects, TaskProject(t)).manager_id = t

\* C31: a task is added only by a step that ends the deadline step of a
\* user who is then the manager of the task's project; a user at the
\* description or deadline step manages the project of the own row; and
\* "create task" pressed by anybody else changes no table and no session.
C31_TasksByManager ==
    /\ [][\A k \in tasks' \ tasks :
            \E t \in TelegramIds :
               /\ fsm[t].state = TCDeadline /\ fsm'[t] = Idle
               /\ \E p \in projects : p.id = k.project_id /\ p.manager_id = t]_vars
    /\ [](\A t \in TelegramIds :
            fsm[t].state \in {TCDescription, TCDeadline} => ManagesOwnProject(t))
    /\ [][\A t \in TelegramIds :
            (cb_create_task(t) /\ ~ManagesOwnProject(t)) => UNCHANGED <<db, fsm>>]_vars
\* user 3 has registered and user 2 is in the middle of joining while the
\* manager's task creation went on, and the task went to the row of user 3
C31_Witness ==
    \E k \in tasks, x \in UserRows(users, 3) :
       /\ k.assigned_to = x.id
       /\ \E p \in projects : p.id = k.project_id /\ p.manager_id = 1
       /\ fsm[2].state = PMNewCode
       /\ fsm[1] = Idle

\* C32: a task added by the deadline step of user t is a task of the project
\* of the active row of t.
C32_TaskInActiveProject ==
    [][\A k \in tasks' \ tasks :
          \E t \in TelegramIds :
             /\ fsm[t].state = TCDeadline /\ fsm'[t] = Idle
             /\ \E x \in ActiveRows(users, t) : x.project_id = k.project_id]_vars

\* C33: assigned_to of every task is the id of a users row whose project is
\* the project of the task.
C33_AssigneeInTaskProject ==
    \A k \in tasks :
       \E x \in users : x.id = k.assigned_to /\ x.project_id = k.project_id
\* the first project has been deleted with its rows; the project created
\* after it is the only one left and has a task, assigned to a row of it
C33_Witness ==
    /\ projects # {} /\ \A p \in projects : p.code = "AAAAAAA2"
    /\ \E k \in tasks, x \in users :
          x.id = k.assigned_to /\ x.project_id = k.project_id

\* C34: the project of every users row is a row of projects, also when the
\* project is deleted while somebody who entered its code has not yet chosen
\* a role.
C34_MembershipProjectExists ==
    \A x \in users : \E p \in projects : p.id = x.project_id

\* C35: a run of the scheduler changes no table, no status of a task and no
\* session; a step that delivers a reminder or an escalation leaves the tables
\* and the sessions as they were.
C35_SchedulerOnlyReads ==
    /\ [][check_deadlines => UNCHANGED <<projects, users, project_roles, tasks, fsm>>]_vars
    /\ [][(sent' # sent /\ \E m \in sent' : m.kind \in {"reminder", "escalation"})
            => UNCHANGED <<projects, users, project_roles, tasks, fsm>>]_vars
\* a run has reminded the assignee and told the manager, the task is open
C35_Witness ==
    \E k \in tasks :
       /\ k.status # "completed"
       /\ \E m \in sent : m.kind = "reminder" /\ m.task = k.id
       /\ \E m \in sent : m.kind = "escalation" /\ m.task = k.id

\* task i has just been created (its "assigned" message is out) with a
\* deadline more than one period after now
CreatedAtRisk(i) ==
    \E k \in tasks :
       /\ k.id = i
       /\ \E m \in sent : m.kind = "assigned" /\ m.task = i
       /\ 2 * strptime(k.deadline) > clock + Period
\* task i is gone with its project, or completed, or its deadline is still
\* ahead and a run has reminded its assignee and told the manager
NotifiedInTime(i) ==
    \A k \in tasks :
       k.id = i =>
          \/ k.status = "completed"
          \/ /\ clock < 2 * strptime(k.deadline)
             /\ \E m \in sent : m.kind = "reminder" /\ m.task = i
             /\ \E m \in sent : m.kind = "escalation" /\ m.task = i

\* C36: with the job firing every hour, every task whose deadline is more
\* than one hour after its creation, while it is not completed and its project
\* not deleted, gets a reminder to its assignee and an escalation to the
\* manager from a run before the deadline.
C36_NoAtRiskTaskMissed ==
    \A i \in 1 .. MaxTasks : CreatedAtRisk(i) ~> NotifiedInTime(i)
\* the task due 05:00, open, after the run of 04:00
C36_Witness ==
    \E k \in tasks :
       /\ k.deadline = strftime(ParseDeadline(<<1, 5, 0>>)) /\ k.status = "pending"
       /\ clock = 4 * Period
       /\ \E m \in sent : m.kind = "reminder" /\ m.task = k.id /\ m.to = 2
       /\ \E m \in sent : m.kind = "escalation" /\ m.task = k.id /\ m.to = 1

\* a message that fails the validation of the step it is sent at: a code of
\* no project, a role text outside valid_roles, a deadline that does not parse
FailedValidation ==
    \/ \E t \in Registrants, text \in CodeTexts :
          ProjectByCode(projects, text) = {} /\ process_project_code(t, text)
    \/ \E t \in Members, text \in CodeTexts :
          ProjectByCode(projects, text) = {} /\ process_new_project_code(t, text)
    \/ \E t \in Registrants, text \in RoleTexts \ valid_roles : process_role(t, text)
    \/ \E t \in Managers, text \in {d \in StepDeadlines : ~DeadlineParses(d)},
          answer \in StepAnswers : process_task_deadline(t, text, answer, 0)

\* C37: a project code of no project (registration and joining), a role text
\* outside the accepted list and a deadline that does not parse leave every
\* session at its step with its data, and the four tables unchanged.
C37_FailedValidationStays ==
    [][FailedValidation => UNCHANGED <<db, fsm>>]_vars
\* the three users wait at a code step, a code step and the deadline step,
\* with the data of the steps before, after a message that was refused
C37_Witness ==
    /\ fsm[3].state = RegCode /\ "name" \in DOMAIN fsm[3].data
    /\ fsm[2].state = PMNewCode
    /\ fsm[1].state = TCDeadline /\ "description" \in DOMAIN fsm[1].data
    /\ ProjectByCode(projects, "nocode") = {}
    /\ sent = {}

\* user t has no row of users and is in neither the registration nor the
\* project creation states
Unregistered(t) ==
    /\ ~HasUser(users, t)
    /\ ~InRegistration(fsm[t].state)
    /\ ~InProjectCreation(fsm[t].state)

\* C38: an event of a user without a row, outside registration and project
\* creation and other than "/start", reaches no handler: it changes no table
\* and no session; and every button such a user can press, the buttons under
\* a task once assigned to the user included, is answered "register first".
C38_UnregisteredRejected ==
    /\ [][\A t \in TelegramIds :
            (Unregistered(t) /\ EventOf(t) /\ ~cmd_start(t)) => UNCHANGED <<db, fsm>>]_vars
    /\ [][\A t \in TelegramIds :
            ((\E k \in tasks, x \in UserRows(users, t) : k.assigned_to = x.id)
               /\ Unregistered(t)')
            => \A data \in TaskKeyboard :
                  CallbackMiddleware_reply(t, data)' = "register_first"]_vars
====
